---- MODULE Spec2Model ----
(***************************************************************************)
(* A model of pastel's colour-source iterator (src/cli/commands/io.rs) and *)
(* of its HSL <-> RGB conversion engine (src/lib.rs).                      *)
(*                                                                         *)
(* Text is a sequence of one-character strings, so that trimming and line  *)
(* splitting are computed rather than assumed.  Standard input is a byte   *)
(* stream (a sequence of characters) with a read offset.                   *)
(***************************************************************************)
EXTENDS Integers, Sequences, FiniteSets, TLC

VARIABLES
    \* ---- colour-source iterator (io.rs) ----
    argsOpt,     \* the Option<Values> handed to from_args: [some, vals]
    isTty,       \* what atty::is(Stream::Stdin) answers
    stdin,       \* the whole content of standard input
    stdinPos,    \* how many characters of stdin have been consumed
    mode,        \* "Unbuilt", "FromPositionalArguments", "FromStdin", "Failed"
    buildErr,    \* the error from_args returned ("" when none)
    argIdx,      \* how many positional arguments Values has handed out
    attyCalls,   \* how many times the terminal predicate was consulted
    items,       \* every Some(item) that next() has returned, in order
    itemPos,     \* stdinPos after each of these items was produced
    noneCount,   \* how many times next() has returned None
    \* ---- conversion engine (lib.rs) ----
    step,        \* which operation of the colour session comes next
    color,       \* the Color under test
    scaled,      \* color.to_rgba_scaled()
    rounded,     \* Scalar::round(255.0 * channel), before the cast to u8
    rgba,        \* color.to_rgba()
    back,        \* Color::from_rgb(rgba.r, rgba.g, rgba.b)
    backRgba,    \* back.to_rgba()
    backEq,      \* color == back
    lhs, rhs,    \* the two Colors of a comparison
    rhsKind,     \* how lhs and rhs were derived from color
    lhsRgba,     \* lhs.to_rgba()
    rhsRgba,     \* rhs.to_rgba()
    eqRes,       \* lhs == rhs
    \* ---- Hue (lib.rs) ----
    hueN,        \* the stored angle, in quarters of a degree
    hueIn,       \* Hue::from(hueN / 4)
    hueVal       \* hueIn.value()

iterVars == <<argsOpt, isTty, stdin, stdinPos, mode, buildErr, argIdx,
              attyCalls, items, itemPos, noneCount>>
colorVars == <<step, color, scaled, rounded, rgba, back, backRgba, backEq,
               lhs, rhs, rhsKind, lhsRgba, rhsRgba, eqRes>>
hueVars == <<hueN, hueIn, hueVal>>
vars == <<iterVars, colorVars, hueVars>>

-----------------------------------------------------------------------------
(* Bounds of the iterator model *)

MaxArgs == 3
MaxLines == 2
MaxNone == 2

-----------------------------------------------------------------------------
(* Text *)

NL == "\n"
BadByte == "<ff>"
WhiteSpace == {" ", "\t", NL, "\r"}

RECURSIVE TrimStart(_)
TrimStart(t) ==
    IF t # <<>> /\ Head(t) \in WhiteSpace THEN TrimStart(Tail(t)) ELSE t

RECURSIVE TrimEnd(_)
TrimEnd(t) ==
    IF t # <<>> /\ t[Len(t)] \in WhiteSpace
    THEN TrimEnd(SubSeq(t, 1, Len(t) - 1))
    ELSE t

Trim(t) == TrimEnd(TrimStart(t))

RECURSIVE Concat(_)
Concat(ts) == IF ts = <<>> THEN <<>> ELSE Head(ts) \o Concat(Tail(ts))

\* The external parser: Some(colour) for the syntaxes it knows, else None.
KnownColors ==
    { <<<<"r", "e", "d">>, <<255, 0, 0>>>>,
      <<<<"#", "0", "f", "0">>, <<0, 255, 0>>>>,
      <<<<"b", "l", "u", "e">>, <<0, 0, 255>>>> }

parse_color(text) ==
    IF \E kc \in KnownColors : kc[1] = text
    THEN [some |-> TRUE, color |-> (CHOOSE kc \in KnownColors : kc[1] = text)[2]]
    ELSE [some |-> FALSE, color |-> <<>>]

-----------------------------------------------------------------------------
(* Results *)

Ok(c) == [tag |-> "Ok", color |-> c, err |-> "", text |-> <<>>]
Err(e, t) == [tag |-> "Err", color |-> <<>>, err |-> e, text |-> t]

\* BufRead::read_line: the characters up to and including the next newline,
\* or up to the end of input.
LineEnd(stream, pos) ==
    IF \E i \in (pos + 1)..Len(stream) : stream[i] = NL
    THEN CHOOSE i \in (pos + 1)..Len(stream) :
            /\ stream[i] = NL
            /\ \A j \in (pos + 1)..(i - 1) : stream[j] # NL
    ELSE Len(stream)

read_line(stream, pos) ==
    LET end == LineEnd(stream, pos)
        line == SubSeq(stream, pos + 1, end)
    IN  [ ok |-> \A i \in 1..Len(line) : line[i] # BadByte,
          size |-> end - pos,
          line |-> line,
          pos |-> end ]

color_from_stdin_eof_as_parse(stream, pos) ==
    LET rd == read_line(stream, pos)
        line == Trim(rd.line)
        pc == parse_color(line)
    IN  IF ~rd.ok THEN [res |-> Err("ColorInvalidUTF8", <<>>), pos |-> rd.pos]
        ELSE IF pc.some THEN [res |-> Ok(pc.color), pos |-> rd.pos]
        ELSE [res |-> Err("ColorParseError", line), pos |-> rd.pos]

color_from_stdin_no_trim(stream, pos) ==
    LET rd == read_line(stream, pos)
        pc == parse_color(rd.line)
    IN  IF ~rd.ok THEN [res |-> Err("ColorInvalidUTF8", <<>>), pos |-> rd.pos]
        ELSE IF rd.size = 0
        THEN [res |-> Err("CouldNotReadFromStdin", <<>>), pos |-> rd.pos]
        ELSE IF pc.some THEN [res |-> Ok(pc.color), pos |-> rd.pos]
        ELSE [res |-> Err("ColorParseError", rd.line), pos |-> rd.pos]

color_from_stdin(stream, pos) ==
    LET rd == read_line(stream, pos)
        line == Trim(rd.line)
        pc == parse_color(line)
    IN  IF ~rd.ok THEN [res |-> Err("ColorInvalidUTF8", <<>>), pos |-> rd.pos]
        ELSE IF rd.size = 0
        THEN [res |-> Err("CouldNotReadFromStdin", <<>>), pos |-> rd.pos]
        ELSE IF pc.some THEN [res |-> Ok(pc.color), pos |-> rd.pos]
        ELSE [res |-> Err("ColorParseError", line), pos |-> rd.pos]

from_color_arg_dash_parsed(arg, stream, pos) ==
    LET pc == parse_color(arg)
    IN  IF pc.some THEN [res |-> Ok(pc.color), pos |-> pos]
        ELSE [res |-> Err("ColorParseError", arg), pos |-> pos]

from_color_arg(arg, stream, pos) ==
    IF arg = <<"-">> THEN color_from_stdin(stream, pos)
    ELSE LET pc == parse_color(arg)
         IN  IF pc.some THEN [res |-> Ok(pc.color), pos |-> pos]
             ELSE [res |-> Err("ColorParseError", arg), pos |-> pos]

from_args_tty_first(a, tty) ==
    IF tty THEN [mode |-> "Failed", err |-> "ColorArgRequired", atty |-> 1]
    ELSE IF a.some
    THEN [mode |-> "FromPositionalArguments", err |-> "", atty |-> 1]
    ELSE [mode |-> "FromStdin", err |-> "", atty |-> 1]

from_args(a, tty) ==
    IF a.some THEN [mode |-> "FromPositionalArguments", err |-> "", atty |-> 0]
    ELSE IF tty THEN [mode |-> "Failed", err |-> "ColorArgRequired", atty |-> 1]
    ELSE [mode |-> "FromStdin", err |-> "", atty |-> 1]

\* Iterator::next: [some, item, idx, pos] from the iterator's mode, the
\* argument list, the number of arguments already handed out, and stdin.
next_swallow_everywhere(m, vals, idx, stream, pos) ==
    IF m = "FromPositionalArguments"
    THEN IF idx < Len(vals)
         THEN LET r == from_color_arg(vals[idx + 1], stream, pos)
              IN  IF r.res.err = "CouldNotReadFromStdin"
                  THEN [some |-> FALSE, item |-> r.res, idx |-> idx + 1, pos |-> r.pos]
                  ELSE [some |-> TRUE, item |-> r.res, idx |-> idx + 1, pos |-> r.pos]
         ELSE [some |-> FALSE, item |-> Ok(<<>>), idx |-> idx, pos |-> pos]
    ELSE LET r == color_from_stdin(stream, pos)
         IN  IF r.res.err = "CouldNotReadFromStdin"
             THEN [some |-> FALSE, item |-> r.res, idx |-> idx, pos |-> r.pos]
             ELSE [some |-> TRUE, item |-> r.res, idx |-> idx, pos |-> r.pos]

next_stop_on_error(m, vals, idx, stream, pos) ==
    IF m = "FromPositionalArguments"
    THEN IF idx < Len(vals)
         THEN LET r == from_color_arg(vals[idx + 1], stream, pos)
              IN  [some |-> TRUE, item |-> r.res, idx |-> idx + 1, pos |-> r.pos]
         ELSE [some |-> FALSE, item |-> Ok(<<>>), idx |-> idx, pos |-> pos]
    ELSE LET r == color_from_stdin(stream, pos)
         IN  IF r.res.tag = "Ok"
             THEN [some |-> TRUE, item |-> r.res, idx |-> idx, pos |-> r.pos]
             ELSE [some |-> FALSE, item |-> r.res, idx |-> idx, pos |-> r.pos]

next(m, vals, idx, stream, pos) ==
    IF m = "FromPositionalArguments"
    THEN IF idx < Len(vals)
         THEN LET r == from_color_arg(vals[idx + 1], stream, pos)
              IN  [some |-> TRUE, item |-> r.res, idx |-> idx + 1, pos |-> r.pos]
         ELSE [some |-> FALSE, item |-> Ok(<<>>), idx |-> idx, pos |-> pos]
    ELSE LET r == color_from_stdin(stream, pos)
         IN  IF r.res.tag = "Ok"
             THEN [some |-> TRUE, item |-> r.res, idx |-> idx, pos |-> r.pos]
             ELSE IF r.res.err = "CouldNotReadFromStdin"
             THEN [some |-> FALSE, item |-> r.res, idx |-> idx, pos |-> r.pos]
             ELSE [some |-> TRUE, item |-> r.res, idx |-> idx, pos |-> r.pos]

-----------------------------------------------------------------------------
(* Inputs of the iterator model *)

ArgPool == { <<"r", "e", "d">>, <<"-">>, <<"b", "l", "u", "e">>, <<"z">> }

LinePool ==
    { <<"r", "e", "d", NL>>,
      <<" ", "#", "0", "f", "0", "\t", "\r", NL>>,
      <<"z", " ", NL>>,
      <<BadByte, NL>>,
      <<NL>> }

\* A last line that no newline ends.
TailPool == { <<>>, <<"b", "l", "u", "e">> }

SeqsUpTo(S, n) == UNION { [1..k -> S] : k \in 0..n }

ArgLists == SeqsUpTo(ArgPool, MaxArgs)

StdinContents ==
    { Concat(ls) \o t : ls \in SeqsUpTo(LinePool, MaxLines), t \in TailPool }

-----------------------------------------------------------------------------
(* Natural numbers of any size: little-endian sequences of limbs below     *)
(* Base, without leading zero limbs (zero is the empty sequence).  TLC's   *)
(* integers are 32 bits wide; a limb product stays below 2^31.             *)

LimbBits == 15
Base == 2^LimbBits

Min(a, b) == IF a < b THEN a ELSE b

RECURSIVE BNorm(_)
BNorm(a) ==
    IF a # <<>> /\ a[Len(a)] = 0 THEN BNorm(SubSeq(a, 1, Len(a) - 1)) ELSE a

RECURSIVE BFromInt(_)
BFromInt(n) == IF n = 0 THEN <<>> ELSE <<n % Base>> \o BFromInt(n \div Base)

RECURSIVE BToInt(_)
BToInt(a) == IF a = <<>> THEN 0 ELSE a[1] + Base * BToInt(Tail(a))

BLimb(a, i) == IF i <= Len(a) THEN a[i] ELSE 0

RECURSIVE BAddC(_, _, _, _)
BAddC(a, b, i, c) ==
    IF i > Len(a) /\ i > Len(b)
    THEN IF c = 0 THEN <<>> ELSE <<c>>
    ELSE LET t == BLimb(a, i) + BLimb(b, i) + c
         IN  <<t % Base>> \o BAddC(a, b, i + 1, t \div Base)

BAdd(a, b) == BAddC(a, b, 1, 0)

RECURSIVE BSubC(_, _, _, _)
BSubC(a, b, i, br) ==
    IF i > Len(a) THEN <<>>
    ELSE LET t == a[i] - BLimb(b, i) - br
         IN  IF t < 0 THEN <<t + Base>> \o BSubC(a, b, i + 1, 1)
             ELSE <<t>> \o BSubC(a, b, i + 1, 0)

\* a - b, for a >= b
BSub(a, b) == BNorm(BSubC(a, b, 1, 0))

RECURSIVE BCmpAt(_, _, _)
BCmpAt(a, b, i) ==
    IF i = 0 THEN 0
    ELSE IF a[i] # b[i] THEN (IF a[i] < b[i] THEN -1 ELSE 1)
    ELSE BCmpAt(a, b, i - 1)

BCmp(a, b) ==
    IF Len(a) # Len(b) THEN (IF Len(a) < Len(b) THEN -1 ELSE 1)
    ELSE BCmpAt(a, b, Len(a))

RECURSIVE BMulSmallC(_, _, _, _)
BMulSmallC(a, k, i, c) ==
    IF i > Len(a) THEN (IF c = 0 THEN <<>> ELSE <<c>>)
    ELSE LET t == a[i] * k + c
         IN  <<t % Base>> \o BMulSmallC(a, k, i + 1, t \div Base)

\* a * k, for k < Base
BMulSmall(a, k) == IF k = 0 THEN <<>> ELSE BMulSmallC(a, k, 1, 0)

BShiftLimbs(a, n) == IF a = <<>> THEN <<>> ELSE [i \in 1..n |-> 0] \o a

RECURSIVE BMulAt(_, _, _)
BMulAt(a, b, j) ==
    IF j > Len(b) THEN <<>>
    ELSE BAdd(BShiftLimbs(BMulSmall(a, b[j]), j - 1), BMulAt(a, b, j + 1))

BMul(a, b) == BMulAt(a, b, 1)

\* a * 2^n
BShl(a, n) == BShiftLimbs(BMulSmall(a, 2^(n % LimbBits)), n \div LimbBits)

RECURSIVE BDivSmallAt(_, _, _, _)
BDivSmallAt(a, k, i, rem) ==
    IF i = 0 THEN <<>>
    ELSE LET cur == rem * Base + a[i]
         IN  BDivSmallAt(a, k, i - 1, cur % k) \o <<cur \div k>>

\* a \div 2^n
BShr(a, n) ==
    IF n \div LimbBits >= Len(a) THEN <<>>
    ELSE LET top == SubSeq(a, n \div LimbBits + 1, Len(a))
         IN  BNorm(BDivSmallAt(top, 2^(n % LimbBits), Len(top), 0))

RECURSIVE IntBitLen(_)
IntBitLen(n) == IF n = 0 THEN 0 ELSE 1 + IntBitLen(n \div 2)

BBitLen(a) ==
    IF a = <<>> THEN 0 ELSE LimbBits * (Len(a) - 1) + IntBitLen(a[Len(a)])

BOne == <<1>>

\* Long division, one limb of the quotient at a time: the digit is
\* estimated from the two leading limbs of the remainder and the leading
\* limb of the divisor (shifted so that its top bit is set), then
\* corrected downwards.
RECURSIVE BDigit(_, _, _)
BDigit(r, b, est) ==
    IF BCmp(BMulSmall(b, est), r) > 0 THEN BDigit(r, b, est - 1) ELSE est

BEstimate(r, b) ==
    Min(Base - 1,
        (BLimb(r, Len(b) + 1) * Base + BLimb(r, Len(b))) \div b[Len(b)])

RECURSIVE BDivStep(_, _, _, _, _)
RECURSIVE BDivLimb(_, _, _, _, _)
RECURSIVE BDivSub(_, _, _, _, _, _)

\* The quotient q and the remainder r so far, and the limbs 1..i of a to go.
BDivStep(a, b, i, q, r) ==
    IF i = 0 THEN [q |-> BNorm(q), r |-> r]
    ELSE BDivLimb(a, b, i, q, BNorm(<<a[i]>> \o r))

BDivLimb(a, b, i, q, r2) == BDivSub(a, b, i, q, r2, BDigit(r2, b, BEstimate(r2, b)))

BDivSub(a, b, i, q, r2, d) ==
    BDivStep(a, b, i - 1, <<d>> \o q, BSub(r2, BMulSmall(b, d)))

BDivStart(a, b) == BDivStep(a, b, Len(a), <<>>, <<>>)

BDivUnshift(res, sh) == [q |-> res.q, r |-> BShr(res.r, sh)]

\* Both operands shifted left by sh bits: the quotient is the same, the
\* remainder is shifted back.
BDivBy(a, b, sh) == BDivUnshift(BDivStart(BShl(a, sh), BShl(b, sh)), sh)

BDivMod(a, b) == BDivBy(a, b, LimbBits - IntBitLen(b[Len(b)]))

-----------------------------------------------------------------------------
(* Scalar: IEEE-754 binary64, round to nearest, ties to even.  A finite    *)
(* value is (-1)^s * m * 2^e with m of exactly MantBits bits, or zero.     *)
(* The exponent is unbounded: the values of the model stay far from the    *)
(* subnormal and overflow ranges.  NaN and the infinities are left out.    *)

MantBits == 53

FZero == [s |-> 0, m |-> <<>>, e |-> 0]

IsZero(x) == x.m = <<>>

\* Round the exact value (-1)^s * (n + sticky) * 2^e, where sticky stands
\* for a non-zero amount below one unit of n, to MantBits bits.
FRenorm(s, q2, e) ==
    IF BBitLen(q2) > MantBits THEN [s |-> s, m |-> BShr(q2, 1), e |-> e + 1]
    ELSE [s |-> s, m |-> q2, e |-> e]

\* q is n without its k lowest bits, and c compares those bits with a half.
FRoundUp(s, q, k, e, sticky, c) ==
    FRenorm(s,
            IF c > 0 \/ (c = 0 /\ (sticky \/ q[1] % 2 = 1)) THEN BAdd(q, BOne)
            ELSE q,
            e + k)

FRoundCut(s, n, q, k, e, sticky) ==
    FRoundUp(s, q, k, e, sticky, BCmp(BSub(n, BShl(q, k)), BShl(BOne, k - 1)))

FRoundLen(s, n, len, e, sticky) ==
    IF len <= MantBits
    THEN [s |-> s, m |-> BShl(n, MantBits - len), e |-> e - (MantBits - len)]
    ELSE FRoundCut(s, n, BShr(n, len - MantBits), len - MantBits, e, sticky)

FRound(s, n, e, sticky) ==
    IF n = <<>> THEN FZero ELSE FRoundLen(s, n, BBitLen(n), e, sticky)

FFromInt(n) == FRound(IF n < 0 THEN 1 ELSE 0, BFromInt(IF n < 0 THEN -n ELSE n), 0, FALSE)

\* n * 2^e
FDyadic(n, e) == FRound(IF n < 0 THEN 1 ELSE 0, BFromInt(IF n < 0 THEN -n ELSE n), e, FALSE)

FNeg(x) == IF IsZero(x) THEN x ELSE [x EXCEPT !.s = 1 - x.s]

FAbs(x) == [x EXCEPT !.s = 0]

\* |X| and |Y| are the magnitudes in units of 2^e, and c compares them.
FAddSigned(sx, sy, X, Y, e, c) ==
    IF c = 0 THEN FZero
    ELSE FRound(IF c > 0 THEN sx ELSE sy,
                IF sx = sy THEN BAdd(X, Y)
                ELSE IF c > 0 THEN BSub(X, Y) ELSE BSub(Y, X),
                e, FALSE)

FAddAligned(sx, sy, X, Y, e) ==
    FAddSigned(sx, sy, X, Y, e, IF sx = sy THEN 1 ELSE BCmp(X, Y))

FAdd(x, y) ==
    IF IsZero(x) THEN y
    ELSE IF IsZero(y) THEN x
    ELSE FAddAligned(x.s, y.s,
                     BShl(x.m, x.e - Min(x.e, y.e)),
                     BShl(y.m, y.e - Min(x.e, y.e)),
                     Min(x.e, y.e))

FSub(x, y) == FAdd(x, FNeg(y))

FMul(x, y) ==
    IF IsZero(x) \/ IsZero(y) THEN FZero
    ELSE FRound((x.s + y.s) % 2, BMul(x.m, y.m), x.e + y.e, FALSE)

\* x / y, for y # 0
FDivRound(s, dm, e) == FRound(s, dm.q, e, dm.r # <<>>)

FDiv(x, y) ==
    IF IsZero(x) THEN FZero
    ELSE FDivRound((x.s + y.s) % 2, BDivMod(BShl(x.m, MantBits + 3), y.m),
                   x.e - y.e - (MantBits + 3))

\* x % y: the remainder of the division truncated towards zero; it has the
\* sign of x and is exact.
FRemAligned(x, X, Y, e) ==
    IF BCmp(X, Y) < 0 THEN x ELSE FRound(x.s, BDivMod(X, Y).r, e, FALSE)

FRem(x, y) ==
    IF IsZero(x) THEN FZero
    ELSE FRemAligned(x,
                     BShl(x.m, x.e - Min(x.e, y.e)),
                     BShl(y.m, y.e - Min(x.e, y.e)),
                     Min(x.e, y.e))

\* -1, 0 or 1 as x is below, equal to or above y
FCmp(x, y) ==
    LET sx == IF IsZero(x) THEN 0 ELSE IF x.s = 1 THEN -1 ELSE 1
        sy == IF IsZero(y) THEN 0 ELSE IF y.s = 1 THEN -1 ELSE 1
        mag == IF x.e # y.e THEN (IF x.e < y.e THEN -1 ELSE 1)
               ELSE BCmp(x.m, y.m)
    IN  IF sx # sy THEN (IF sx < sy THEN -1 ELSE 1)
        ELSE IF sx = 0 THEN 0
        ELSE sx * mag

FLt(x, y) == FCmp(x, y) < 0

FLe(x, y) == FCmp(x, y) <= 0

\* Scalar::round, as an integer: to nearest, halves away from zero.  A
\* magnitude of 2^30 or more is returned as 2^30.
\* q is the integer part of the magnitude m * 2^(-k).
RoundHalfUp(m, q, k) ==
    BToInt(IF BCmp(BSub(m, BShl(q, k)), BShl(BOne, k - 1)) >= 0
           THEN BAdd(q, BOne) ELSE q)

RoundSigned(s, mag) == IF s = 1 THEN -mag ELSE mag

RoundToInt(x) ==
    IF IsZero(x) THEN 0
    ELSE IF MantBits + x.e > 30 THEN RoundSigned(x.s, 2^30)
    ELSE IF MantBits + x.e < 0 THEN 0
    ELSE RoundSigned(x.s, RoundHalfUp(x.m, BShr(x.m, -x.e), -x.e))

\* `as u8` on a float that holds an integer: saturating.
AsU8(n) == IF n < 0 THEN 0 ELSE IF n > 255 THEN 255 ELSE n
-----------------------------------------------------------------------------
(* The conversion engine (lib.rs) *)

F0 == FZero
F1 == FFromInt(1)
F2 == FFromInt(2)
F3 == FFromInt(3)
F4 == FFromInt(4)
F5 == FFromInt(5)
F6 == FFromInt(6)
F60 == FFromInt(60)
F255 == FFromInt(255)
F360 == FFromInt(360)

\* helper::mod_positive: like %, but never negative.
mod_positive(x, y) == FRem(FAdd(FRem(x, y), y), y)

HueFrom(unclipped) == [unclipped |-> unclipped]

HueValue_always_wrapped(hue) == mod_positive(hue.unclipped, F360)

HueValue(hue) ==
    IF hue.unclipped = F360 THEN hue.unclipped
    ELSE mod_positive(hue.unclipped, F360)

from_hsla(hue, saturation, lightness, alpha) ==
    [ hue |-> HueFrom(hue), saturation |-> saturation,
      lightness |-> lightness, alpha |-> alpha ]

from_hsl(hue, saturation, lightness) == from_hsla(hue, saturation, lightness, F1)

Max(a, b) == IF a > b THEN a ELSE b

from_rgba(r, g, b, alpha) ==
    LET max_chroma == Max(Max(r, g), b)
        min_chroma == Min(Min(r, g), b)
        chroma == max_chroma - min_chroma
        chroma_s == FDiv(FFromInt(chroma), F255)
        r_s == FDiv(FFromInt(r), F255)
        g_s == FDiv(FFromInt(g), F255)
        b_s == FDiv(FFromInt(b), F255)
        hue == FMul(F60,
                    IF chroma = 0 THEN F0
                    ELSE IF r = max_chroma
                    THEN mod_positive(FDiv(FSub(g_s, b_s), chroma_s), F6)
                    ELSE IF g = max_chroma
                    THEN FAdd(FDiv(FSub(b_s, r_s), chroma_s), F2)
                    ELSE FAdd(FDiv(FSub(r_s, g_s), chroma_s), F4))
        lightness == FDiv(FAdd(FFromInt(max_chroma), FFromInt(min_chroma)),
                          FMul(F255, F2))
        saturation ==
            IF chroma = 0 THEN F0
            ELSE FDiv(chroma_s,
                      FSub(F1, FAbs(FSub(FMul(F2, lightness), F1))))
    IN  from_hsla(hue, saturation, lightness, alpha)

\* from_rgb with the green and blue arguments exchanged.
from_rgb_swapped(r, g, b) == from_rgba(r, b, g, F1)

from_rgb(r, g, b) == from_rgba(r, g, b, F1)

to_hsla(c) ==
    [ h |-> HueValue(c.hue), s |-> c.saturation, l |-> c.lightness,
      alpha |-> c.alpha ]

\* let h_s = self.hue.value() / 60.0
scaled_h_s(c) == FDiv(HueValue(c.hue), F60)

\* let chr = (1.0 - |2.0 * lightness - 1.0|) * saturation
scaled_chr(c) ==
    FMul(FSub(F1, FAbs(FSub(FMul(F2, c.lightness), F1))), c.saturation)

\* let m = self.lightness - chr / 2.0
scaled_m(c, chr) == FSub(c.lightness, FDiv(chr, F2))

\* let x = chr * (1.0 - |h_s % 2.0 - 1.0|)
scaled_x(h_s, chr) == FMul(chr, FSub(F1, FAbs(FSub(FRem(h_s, F2), F1))))

\* let col = the sector of h_s
scaled_col(h_s, chr, x) ==
    IF FLt(h_s, F1) THEN <<chr, x, F0>>
    ELSE IF FLe(F1, h_s) /\ FLt(h_s, F2) THEN <<x, chr, F0>>
    ELSE IF FLe(F2, h_s) /\ FLt(h_s, F3) THEN <<F0, chr, x>>
    ELSE IF FLe(F3, h_s) /\ FLt(h_s, F4) THEN <<F0, x, chr>>
    ELSE IF FLe(F4, h_s) /\ FLt(h_s, F5) THEN <<x, F0, chr>>
    ELSE <<chr, F0, x>>

\* RGBA { r: col.0 + m, g: col.1 + m, b: col.2 + m, alpha }
scaled_sum(col, m, alpha) ==
    [ r |-> FAdd(col[1], m), g |-> FAdd(col[2], m), b |-> FAdd(col[3], m),
      alpha |-> alpha ]

scaled_of(c, h_s, chr) ==
    scaled_sum(scaled_col(h_s, chr, scaled_x(h_s, chr)), scaled_m(c, chr), c.alpha)

to_rgba_scaled(c) == scaled_of(c, scaled_h_s(c), scaled_chr(c))

\* Scalar::round(255.0 * channel) of each channel, before the cast to u8.
round_channels(p) ==
    [ r |-> RoundToInt(FMul(F255, p.r)),
      g |-> RoundToInt(FMul(F255, p.g)),
      b |-> RoundToInt(FMul(F255, p.b)) ]

rounded_channels(c) == round_channels(to_rgba_scaled(c))

\* `as u8` of each rounded channel
cast_channels(k, alpha) ==
    [ r |-> AsU8(k.r), g |-> AsU8(k.g), b |-> AsU8(k.b), alpha |-> alpha ]

to_rgba(c) == cast_channels(rounded_channels(c), c.alpha)

\* Equality of the stored fields instead.
eq_by_fields(self, other) ==
    /\ HueValue(self.hue) = HueValue(other.hue)
    /\ self.saturation = other.saturation
    /\ self.lightness = other.lightness
    /\ self.alpha = other.alpha

\* impl PartialEq for Color
eq(self, other) == to_rgba(self) = to_rgba(other)

black == from_hsl(F0, F0, F0)
white == from_hsl(F0, F0, F1)

\* The Scalar nearest to the decimal num / den: what a literal denotes.
FDec(num, den) == FDiv(FFromInt(num), FFromInt(den))

-----------------------------------------------------------------------------
(* The parts of the state a specification does not use stay idle *)

ColorIdle ==
    /\ step = "idle"
    /\ color = black
    /\ scaled = <<>> /\ rounded = <<>> /\ rgba = <<>>
    /\ back = <<>> /\ backRgba = <<>> /\ backEq = FALSE
    /\ lhs = <<>> /\ rhs = <<>> /\ rhsKind = ""
    /\ lhsRgba = <<>> /\ rhsRgba = <<>> /\ eqRes = FALSE

HueIdle == hueN = 0 /\ hueIn = HueFrom(F0) /\ hueVal = <<>>

IterIdle ==
    /\ argsOpt = [some |-> FALSE, vals |-> <<>>]
    /\ isTty = FALSE
    /\ stdin = <<>>
    /\ stdinPos = 0
    /\ mode = "idle"
    /\ buildErr = ""
    /\ argIdx = 0
    /\ attyCalls = 0
    /\ items = <<>>
    /\ itemPos = <<>>
    /\ noneCount = 0

-----------------------------------------------------------------------------
(* Inputs of the engine model *)

HueSteps == 12
SatSteps == 2
LightSteps == 4
MaxDeg == 725

\* Hues one turn below and above the canonical range, 360 itself included.
Hues == { FDec(360 * k, HueSteps) : k \in (-HueSteps)..HueSteps }

Sats == { FDec(k, SatSteps) : k \in 0..SatSteps }

\* A grid over [0, 1], and the literals 0.15 and 0.8.
Lights == { FDec(k, LightSteps) : k \in 0..LightSteps }
            \cup { FDec(15, 100), FDec(8, 10) }

\* A channel value next to v.
Neighbour(v) == IF v < 255 THEN v + 1 ELSE v - 1

RhsKinds == {"turn", "black", "white", "alpha", "red", "green", "blue"}

\* The two colours of a comparison of the given kind: c itself one turn
\* further, black or white against c, c with two alphas, and c against the
\* colour of its own 8-bit channels p with one of them changed by one.
Lhs(kind, c) ==
    CASE kind = "black" -> black
      [] kind = "white" -> white
      [] kind = "alpha" ->
            from_hsla(c.hue.unclipped, c.saturation, c.lightness, FDec(9, 10))
      [] OTHER -> c

Rhs(kind, c, p) ==
    CASE kind = "turn" ->
            from_hsl(FAdd(c.hue.unclipped, F360), c.saturation, c.lightness)
      [] kind = "alpha" ->
            from_hsla(c.hue.unclipped, c.saturation, c.lightness, FDec(901, 1000))
      [] kind = "red" -> from_rgba(Neighbour(p.r), p.g, p.b, p.alpha)
      [] kind = "green" -> from_rgba(p.r, Neighbour(p.g), p.b, p.alpha)
      [] kind = "blue" -> from_rgba(p.r, p.g, Neighbour(p.b), p.alpha)
      [] OTHER -> c

-----------------------------------------------------------------------------
(* The engine as a state machine: one colour, and the operations on it *)

InitColor ==
    /\ step = "new"
    /\ color \in { from_hsl(h, sat, l) : h \in Hues, sat \in Sats, l \in Lights }
    /\ scaled = <<>> /\ rounded = <<>> /\ rgba = <<>>
    /\ back = <<>> /\ backRgba = <<>> /\ backEq = FALSE
    /\ lhs = <<>> /\ rhs = <<>> /\ rhsKind = ""
    /\ lhsRgba = <<>> /\ rhsRgba = <<>> /\ eqRes = FALSE
    /\ HueIdle
    /\ IterIdle

\* Color::to_rgba_scaled
ToRgbaScaled ==
    /\ step = "new"
    /\ scaled' = to_rgba_scaled(color)
    /\ step' = "scaled"
    /\ UNCHANGED <<color, rounded, rgba, back, backRgba, backEq, lhs, rhs,
                   rhsKind, lhsRgba, rhsRgba, eqRes>>
    /\ UNCHANGED <<iterVars, hueVars>>

\* Color::to_rgba
ToRgba ==
    /\ step = "scaled"
    /\ rounded' = rounded_channels(color)
    /\ rgba' = to_rgba(color)
    /\ step' = "rgba"
    /\ UNCHANGED <<color, scaled, back, backRgba, backEq, lhs, rhs, rhsKind,
                   lhsRgba, rhsRgba, eqRes>>
    /\ UNCHANGED <<iterVars, hueVars>>

\* The closure of test_roundtrip_conversion: back through Color::from_rgb
RoundTrip ==
    /\ step = "rgba"
    /\ back' = from_rgb(rgba.r, rgba.g, rgba.b)
    /\ backRgba' = to_rgba(back')
    /\ backEq' = eq(color, back')
    /\ step' = "back"
    /\ UNCHANGED <<color, scaled, rounded, rgba, lhs, rhs, rhsKind, lhsRgba,
                   rhsRgba, eqRes>>
    /\ UNCHANGED <<iterVars, hueVars>>

\* Color::eq on two colours derived from the one under test
Compare ==
    /\ step = "back"
    /\ \E kind \in RhsKinds :
          /\ rhsKind' = kind
          /\ lhs' = Lhs(kind, color)
          /\ rhs' = Rhs(kind, color, rgba)
          /\ lhsRgba' = to_rgba(lhs')
          /\ rhsRgba' = to_rgba(rhs')
          /\ eqRes' = eq(lhs', rhs')
    /\ step' = "cmp"
    /\ UNCHANGED <<color, scaled, rounded, rgba, back, backRgba, backEq>>
    /\ UNCHANGED <<iterVars, hueVars>>

NextColor == ToRgbaScaled \/ ToRgba \/ RoundTrip \/ Compare

SpecColor == InitColor /\ [][NextColor]_vars

-----------------------------------------------------------------------------
(* Hue as a state machine: a stored angle, and its value *)

InitHue ==
    /\ hueN \in (-4 * MaxDeg)..(4 * MaxDeg)
    /\ hueIn = HueFrom(FDyadic(hueN, -2))
    /\ hueVal = <<>>
    /\ ColorIdle
    /\ IterIdle

\* Hue::value
Value ==
    /\ hueVal = <<>>
    /\ hueVal' = HueValue(hueIn)
    /\ UNCHANGED <<hueN, hueIn>>
    /\ UNCHANGED <<iterVars, colorVars>>

NextHue == Value

SpecHue == InitHue /\ [][NextHue]_vars

-----------------------------------------------------------------------------
(* The iterator as a state machine *)

InitIter ==
    /\ argsOpt \in { [some |-> FALSE, vals |-> <<>>] }
                     \cup { [some |-> TRUE, vals |-> a] : a \in ArgLists }
    /\ isTty \in BOOLEAN
    /\ stdin \in StdinContents
    /\ stdinPos = 0
    /\ mode = "Unbuilt"
    /\ buildErr = ""
    /\ argIdx = 0
    /\ attyCalls = 0
    /\ items = <<>>
    /\ itemPos = <<>>
    /\ noneCount = 0
    /\ ColorIdle
    /\ HueIdle

\* ColorArgIterator::from_args
FromArgs ==
    /\ mode = "Unbuilt"
    /\ LET r == from_args(argsOpt, isTty)
       IN  /\ mode' = r.mode
           /\ buildErr' = r.err
           /\ attyCalls' = attyCalls + r.atty
    /\ UNCHANGED <<argsOpt, isTty, stdin, stdinPos, argIdx, items, itemPos,
                   noneCount>>
    /\ UNCHANGED <<colorVars, hueVars>>

\* One call of Iterator::next by the consumer
Next ==
    /\ mode \in {"FromPositionalArguments", "FromStdin"}
    /\ noneCount < MaxNone
    /\ LET r == next(mode, argsOpt.vals, argIdx, stdin, stdinPos)
       IN  /\ argIdx' = r.idx
           /\ stdinPos' = r.pos
           /\ IF r.some
              THEN /\ items' = Append(items, r.item)
                   /\ itemPos' = Append(itemPos, r.pos)
                   /\ noneCount' = noneCount
              ELSE /\ noneCount' = noneCount + 1
                   /\ UNCHANGED <<items, itemPos>>
    /\ UNCHANGED <<argsOpt, isTty, stdin, mode, buildErr, attyCalls>>
    /\ UNCHANGED <<colorVars, hueVars>>

NextIter == FromArgs \/ Next

SpecIter == InitIter /\ [][NextIter]_vars

-----------------------------------------------------------------------------
(* What the claims about the iterator speak of *)

\* The offsets at which the lines of a stream end.
LineEnds(stream) ==
    { i \in 1..Len(stream) : stream[i] = NL \/ i = Len(stream) }

NumLines(stream) == Cardinality(LineEnds(stream))

LineEndAt(stream, d) ==
    CHOOSE e \in LineEnds(stream) :
        Cardinality({ x \in LineEnds(stream) : x <= e }) = d

LineStartAt(stream, d) == IF d = 1 THEN 0 ELSE LineEndAt(stream, d - 1)

LineText(stream, d) ==
    SubSeq(stream, LineStartAt(stream, d) + 1, LineEndAt(stream, d))

ValidUtf8(line) == \A i \in 1..Len(line) : line[i] # BadByte

\* What one line of standard input is worth.
LineItem(line) ==
    IF ~ValidUtf8(line) THEN Err("ColorInvalidUTF8", <<>>)
    ELSE IF parse_color(Trim(line)).some THEN Ok(parse_color(Trim(line)).color)
    ELSE Err("ColorParseError", Trim(line))

\* What an argument other than "-" is worth.
ArgItem(arg) ==
    IF parse_color(arg).some THEN Ok(parse_color(arg).color)
    ELSE Err("ColorParseError", arg)

Dashes(vals, k) == Cardinality({ j \in 1..k : vals[j] = <<"-">> })

PrevPos(k) == IF k = 1 THEN 0 ELSE itemPos[k - 1]

Positional == mode = "FromPositionalArguments"
StdinMode == mode = "FromStdin"

Vals == argsOpt.vals

DashArg == <<"-">>

-----------------------------------------------------------------------------
(* Claims about the iterator, checked under SpecIter *)

\* C1, as stated: in positional mode the k-th item is the result for the
\* k-th argument; an argument other than "-" reads nothing from stdin, and
\* every "-" argument consumes exactly one line of stdin, the next unread one.
C1_EveryDashConsumesALine ==
    Positional =>
        /\ Len(items) = argIdx
        /\ Len(items) <= Len(Vals)
        /\ \A k \in 1..Len(items) :
              IF Vals[k] # DashArg
              THEN items[k] = ArgItem(Vals[k]) /\ itemPos[k] = PrevPos(k)
              ELSE /\ Dashes(Vals, k) <= NumLines(stdin)
                   /\ itemPos[k] = LineEndAt(stdin, Dashes(Vals, k))
                   /\ items[k] = LineItem(LineText(stdin, Dashes(Vals, k)))

\* C1, amended: in positional mode next() yields one item per argument, in
\* argument order, and then ends; an argument other than "-" reads nothing
\* from stdin; a "-" argument consumes exactly one line of stdin, the next
\* unread one, when one is left, and otherwise consumes nothing and yields
\* Err(CouldNotReadFromStdin).
C1_PositionalOrder ==
    Positional =>
        /\ Len(items) = argIdx
        /\ Len(items) <= Len(Vals)
        /\ noneCount > 0 => Len(items) = Len(Vals)
        /\ \A k \in 1..Len(items) :
              IF Vals[k] # DashArg
              THEN items[k] = ArgItem(Vals[k]) /\ itemPos[k] = PrevPos(k)
              ELSE IF Dashes(Vals, k) <= NumLines(stdin)
              THEN /\ itemPos[k] = LineEndAt(stdin, Dashes(Vals, k))
                   /\ PrevPos(k) = LineStartAt(stdin, Dashes(Vals, k))
                   /\ items[k] = LineItem(LineText(stdin, Dashes(Vals, k)))
              ELSE /\ itemPos[k] = PrevPos(k)
                   /\ items[k] = Err("CouldNotReadFromStdin", <<>>)

\* The example of the specification: red, "-", blue with one more line left
\* on stdin after the one that "-" consumed.
C1_Witness ==
    /\ Positional
    /\ Vals = << <<"r", "e", "d">>, DashArg, <<"b", "l", "u", "e">> >>
    /\ noneCount > 0
    /\ items = << Ok(<<255, 0, 0>>), Ok(<<0, 255, 0>>), Ok(<<0, 0, 255>>) >>
    /\ NumLines(stdin) = 2
    /\ stdinPos = LineEndAt(stdin, 1)

\* C2: from_args selects the mode once and for good.  With positional
\* arguments it yields positional mode and never asks whether stdin is a
\* terminal; without them it asks exactly once, fails with ColorArgRequired
\* on a terminal and yields stdin mode otherwise; the mode then stays what
\* construction made it, whatever next() does.
C2_ModeFixedAtConstruction ==
    mode # "Unbuilt" =>
        /\ argsOpt.some =>
              mode = "FromPositionalArguments" /\ buildErr = "" /\ attyCalls = 0
        /\ (~argsOpt.some /\ isTty) =>
              mode = "Failed" /\ buildErr = "ColorArgRequired" /\ attyCalls = 1
        /\ (~argsOpt.some /\ ~isTty) =>
              mode = "FromStdin" /\ buildErr = "" /\ attyCalls = 1

C2_Witness ==
    /\ StdinMode
    /\ attyCalls = 1
    /\ Len(items) = 2
    /\ noneCount = 1

AllParseable(stream) ==
    \A d \in 1..NumLines(stream) : LineItem(LineText(stream, d)).tag = "Ok"

\* C3: in stdin mode a read of zero bytes ends the sequence without an
\* error item: n parseable lines give exactly n Ok items and then None, and
\* an empty stdin gives no item at all.
C3_EofEndsCleanly ==
    (StdinMode /\ AllParseable(stdin)) =>
        /\ \A k \in 1..Len(items) : items[k].tag = "Ok"
        /\ Len(items) <= NumLines(stdin)
        /\ noneCount > 0 => Len(items) = NumLines(stdin) /\ stdinPos = Len(stdin)
        /\ stdin = <<>> => items = <<>>

C3_Witness ==
    /\ StdinMode
    /\ AllParseable(stdin)
    /\ NumLines(stdin) = 3
    /\ Len(items) = 3
    /\ noneCount = 2

\* C4: in stdin mode a line the parser rejects is yielded as
\* ColorParseError carrying the trimmed line, and the sequence goes on: every
\* line, also one after a malformed line, produces its own item.
C4_ParseErrorDoesNotEndSequence ==
    (StdinMode /\ ValidUtf8(stdin)) =>
        /\ Len(items) <= NumLines(stdin)
        /\ noneCount > 0 => Len(items) = NumLines(stdin)
        /\ \A k \in 1..Len(items) :
              LET line == LineText(stdin, k)
              IN  /\ itemPos[k] = LineEndAt(stdin, k)
                  /\ IF parse_color(Trim(line)).some
                     THEN items[k] = Ok(parse_color(Trim(line)).color)
                     ELSE items[k] = Err("ColorParseError", Trim(line))

C4_Witness ==
    /\ StdinMode
    /\ noneCount > 0
    /\ Len(items) = 2
    /\ items[1] = Err("ColorParseError", <<"z">>)
    /\ items[2] = Ok(<<0, 255, 0>>)

\* C5, as stated: in stdin mode, once next() has yielded the error of a
\* failed read (invalid UTF-8), no further item is produced.
C5_ReadErrorIsLastItem ==
    StdinMode =>
        \A k \in 1..Len(items) :
            items[k].err = "ColorInvalidUTF8" => k = Len(items)

\* C5, amended: in stdin mode a read that fails because the line is not
\* valid UTF-8 is yielded as an Err(ColorInvalidUTF8) item and consumes that
\* line, but it does not end iteration: the following lines still produce
\* their items, and the sequence ends only at the end of input.
C5_ReadErrorIsYieldedAndIterationGoesOn ==
    StdinMode =>
        /\ \A k \in 1..Len(items) :
              ~ValidUtf8(LineText(stdin, k)) =>
                  /\ items[k] = Err("ColorInvalidUTF8", <<>>)
                  /\ itemPos[k] = LineEndAt(stdin, k)
        /\ \A k \in 1..Len(items) :
              items[k].err = "ColorInvalidUTF8" => ~ValidUtf8(LineText(stdin, k))
        /\ noneCount > 0 => Len(items) = NumLines(stdin) /\ stdinPos = Len(stdin)

C5_Witness ==
    /\ StdinMode
    /\ Len(items) = 2
    /\ items[1] = Err("ColorInvalidUTF8", <<>>)
    /\ items[2] = Ok(<<255, 0, 0>>)

\* C6: "could not read from standard input" is handled asymmetrically.  A
\* "-" argument serviced when stdin has nothing left yields
\* Err(CouldNotReadFromStdin) as an item, and the arguments after it are
\* still yielded; in stdin mode the same outcome ends the sequence and is
\* never an item.
C6_CouldNotReadAsymmetry ==
    /\ Positional =>
          /\ \A k \in 1..Len(items) :
                (Vals[k] = DashArg /\ Dashes(Vals, k) > NumLines(stdin))
                    <=> items[k] = Err("CouldNotReadFromStdin", <<>>)
          /\ noneCount > 0 => Len(items) = Len(Vals)
    /\ StdinMode =>
          /\ \A k \in 1..Len(items) : items[k].err # "CouldNotReadFromStdin"
          /\ noneCount > 0 => stdinPos = Len(stdin)
          /\ (noneCount = 0 /\ stdinPos = Len(stdin)) =>
                Len(items) = NumLines(stdin)

C6_Witness ==
    /\ Positional
    /\ noneCount > 0
    /\ Len(items) = 3
    /\ items[1] = Err("CouldNotReadFromStdin", <<>>)
    /\ items[2].tag = "Ok"
    /\ items[3] = Err("CouldNotReadFromStdin", <<>>)

-----------------------------------------------------------------------------
(* Claims about the conversion engine, under SpecColor *)

Channels(p) == {p.r, p.g, p.b}

InUnitRange(x) == FLe(F0, x) /\ FLe(x, F1)

\* C7: the round trip.  The colour rebuilt by from_rgb from the 8-bit
\* channels of to_rgba equals the original colour under Color equality, and
\* its own to_rgba returns exactly those channels again.
C7_RoundTrip ==
    step \in {"back", "cmp"} =>
        /\ backEq
        /\ backRgba = rgba
        /\ to_hsla(back).alpha = F1

\* A chromatic colour whose rebuilt counterpart stores other fields than the
\* original and still equals it.
C7_Witness ==
    /\ step = "back"
    /\ backEq
    /\ back # color
    /\ Cardinality(Channels(rgba)) = 3

\* C9: Color equality is equality of the to_rgba projections.  A colour
\* equals itself one turn of hue further; any colour of lightness 0 equals
\* black and any colour of lightness 1 equals white; colours whose alpha or
\* whose 8-bit red, green or blue differ are not equal.
C9_EqualityIsRgbaEquality ==
    step = "cmp" =>
        /\ eqRes = (lhsRgba = rhsRgba)
        /\ (rhsKind = "turn" => eqRes)
        /\ (rhsKind = "black" /\ color.lightness = F0 => eqRes)
        /\ (rhsKind = "white" /\ color.lightness = F1 => eqRes)
        /\ (rhsKind = "alpha" => lhsRgba.alpha # rhsRgba.alpha /\ ~eqRes)
        /\ (rhsKind = "red" => lhsRgba.r # rhsRgba.r /\ ~eqRes)
        /\ (rhsKind = "green" => lhsRgba.g # rhsRgba.g /\ ~eqRes)
        /\ (rhsKind = "blue" => lhsRgba.b # rhsRgba.b /\ ~eqRes)

\* A fully saturated colour of lightness 0 and a hue other than black's,
\* compared with black and found equal.
C9_Witness ==
    /\ step = "cmp"
    /\ rhsKind = "black"
    /\ rhs.saturation = F1
    /\ rhs.hue # black.hue
    /\ eqRes

\* C10: for saturation and lightness in [0, 1] and any stored hue, every
\* channel of to_rgba_scaled lies in [0, 1], every channel of to_rgba is the
\* rounded 255-fold of it and lies in 0..255, and the cast changes nothing.
C10_ScaledChannelsInUnitRange ==
    /\ step # "new" => \A x \in Channels(scaled) : InUnitRange(x)
    /\ step \in {"rgba", "back", "cmp"} =>
          /\ \A k \in Channels(rounded) : k \in 0..255
          /\ <<rgba.r, rgba.g, rgba.b>> = <<rounded.r, rounded.g, rounded.b>>

-----------------------------------------------------------------------------
(* Claims about Hue, under SpecHue.  The stored angle is hueN / 4 degrees. *)

Turn == 4 * 360

\* C8: Hue::value lies in [0, 360] and is congruent modulo 360 to the stored
\* angle; a stored 360 is returned as 360, every other multiple of 360 as 0;
\* 373 gives 13, -60 gives 300 and 43 gives 43.
C8_HueValueInRangeAndCongruent ==
    hueVal # <<>> =>
        LET q == RoundToInt(FMul(hueVal, F4))
        IN  /\ hueVal = FDyadic(q, -2)
            /\ FLe(F0, hueVal) /\ FLe(hueVal, F360)
            /\ (q - hueN) % Turn = 0
            /\ (hueN = Turn => hueVal = F360)
            /\ (hueN % Turn = 0 /\ hueN # Turn => hueVal = F0)
            /\ (hueN = 4 * 373 => hueVal = FFromInt(13))
            /\ (hueN = 4 * (-60) => hueVal = FFromInt(300))
            /\ (hueN = 4 * 43 => hueVal = FFromInt(43))

\* The value of a negative stored angle, -60.25 degrees.
C8_Witness ==
    /\ hueN = -241
    /\ hueVal = FDyadic(1199, -2)

====
